---------------------------- MODULE Spec2Model ----------------------------
(***************************************************************************)
(* Model of the string functions of terraform-provider-curious             *)
(* (internal/provider/provider.go).  A text is a sequence of Unicode code  *)
(* points (Go's `for _, r := range s`).  One call is made per behaviour:   *)
(* the initial state holds the argument, each action is one function's Run *)
(* method and stores what it hands to resp.Result / resp.Error.            *)
(***************************************************************************)
EXTENDS Integers, Sequences, FiniteSets, TLC

(***************************************************************************)
(* Bounds of the model.                                                    *)
(***************************************************************************)
MaxLen == 3

\* The code points an argument is built from:
\*   9 TAB, 45 '-', 50 '2', 65 'A', 110 'n', 127 DEL,
\*   193 A-acute, 324 n-acute, 769 COMBINING ACUTE ACCENT,
\*   1081 CYRILLIC SHORT I, 4352 HANGUL CHOSEONG KIYEOK,
\*   4449 HANGUL JUNGSEONG A, 44032 HANGUL SYLLABLE GA
Alphabet == {9, 45, 50, 65, 110, 127, 193, 324, 769, 1081, 4352, 4449, 44032}

Texts == UNION {[1..n -> Alphabet] : n \in 0..MaxLen}

(***************************************************************************)
(* Unicode character data (the tables behind package unicode and           *)
(* golang.org/x/text/unicode/norm) for the code points the functions can   *)
(* read or write on these arguments.                                       *)
(***************************************************************************)
\* General category.
Category(r) ==
    CASE r \in {65, 73, 78, 193, 304, 323, 1048, 1049} -> "Lu"
      [] r \in {97, 105, 110, 225, 324, 1080, 1081}   -> "Ll"
      [] r \in {4352, 4449, 44032}             -> "Lo"
      [] r = 50                                -> "Nd"
      [] r \in {769, 774, 775}                 -> "Mn"
      [] r \in {9, 127}                        -> "Cc"
      [] r = 45                                -> "Pd"
      [] r = 95                                -> "Pc"
      [] OTHER                                 -> "Cn"

\* unicode.IsLetter: category L.
IsLetter(r) == Category(r) \in {"Lu", "Ll", "Lt", "Lm", "Lo"}

\* unicode.IsDigit: category Nd.
IsDigit(r) == Category(r) = "Nd"

\* unicode.IsSpace (its members up to U+00A0).
IsSpace(r) == r \in {9, 10, 11, 12, 13, 32, 133, 160}

\* unicode.Is(unicode.Mn, r) and runes.In(unicode.Mn).
IsMn(r) == Category(r) = "Mn"

\* unicode.ToLower.  U+0130 (304, capital I with dot above) maps to 'i'.
ToLower(r) ==
    CASE r = 65 -> 97 [] r = 78 -> 110 [] r = 193 -> 225 [] r = 323 -> 324
      [] r = 1048 -> 1080 [] r = 1049 -> 1081
      [] r = 73 -> 105 [] r = 304 -> 105 [] OTHER -> r

\* unicode.ToUpper.
ToUpper(r) ==
    CASE r = 97 -> 65 [] r = 110 -> 78 [] r = 225 -> 193 [] r = 324 -> 323
      [] r = 1080 -> 1048 [] r = 1081 -> 1049
      [] r = 105 -> 73 [] OTHER -> r

\* unicode.ToTitle (equal to ToUpper on every code point of the table).
ToTitle(r) == ToUpper(r)

\* Full canonical decomposition of one code point.
Decomposition(r) ==
    CASE r = 193   -> <<65, 769>>
      [] r = 225   -> <<97, 769>>
      [] r = 323   -> <<78, 769>>
      [] r = 324   -> <<110, 769>>
      [] r = 1049  -> <<1048, 774>>
      [] r = 1081  -> <<1080, 774>>
      [] r = 44032 -> <<4352, 4449>>
      [] r = 304   -> <<73, 775>>
      [] OTHER     -> <<r>>

\* Canonical combining class.
CCC(r) == IF r \in {769, 774, 775} THEN 230 ELSE 0

\* Primary composite of a pair, 0 when the pair has none.
Composite(a, b) ==
    CASE a = 65   /\ b = 769  -> 193
      [] a = 97   /\ b = 769  -> 225
      [] a = 78   /\ b = 769  -> 323
      [] a = 110  /\ b = 769  -> 324
      [] a = 1048 /\ b = 774  -> 1049
      [] a = 1080 /\ b = 774  -> 1081
      [] a = 4352 /\ b = 4449 -> 44032
      [] a = 73   /\ b = 775  -> 304
      [] OTHER                -> 0

(***************************************************************************)
(* norm.NFD, runes.Remove(runes.In(unicode.Mn)), norm.NFC                  *)
(***************************************************************************)
RECURSIVE Decompose(_)
Decompose(s) ==
    IF s = <<>> THEN <<>> ELSE Decomposition(Head(s)) \o Decompose(Tail(s))

\* Canonical ordering: a code point of combining class > 0 moves left past
\* every neighbour of a greater class; class 0 never moves and is never passed.
RECURSIVE InsertOrdered(_, _)
InsertOrdered(acc, c) ==
    IF acc = <<>> \/ CCC(c) = 0 \/ CCC(acc[Len(acc)]) <= CCC(c)
    THEN Append(acc, c)
    ELSE Append(InsertOrdered(SubSeq(acc, 1, Len(acc) - 1), c), acc[Len(acc)])

RECURSIVE CanonicalOrder(_)
CanonicalOrder(s) ==
    IF s = <<>> THEN <<>>
    ELSE InsertOrdered(CanonicalOrder(SubSeq(s, 1, Len(s) - 1)), s[Len(s)])

NFD(s) == CanonicalOrder(Decompose(s))

\* Variant: the set handed to runes.Remove is unicode.Mc, the spacing marks.
RECURSIVE RemoveMc(_)
RemoveMc(s) ==
    IF s = <<>> THEN <<>>
    ELSE IF Category(Head(s)) = "Mc" THEN RemoveMc(Tail(s))
    ELSE <<Head(s)>> \o RemoveMc(Tail(s))

\* Variant: a mark is removed only where it follows a code point that is no
\* mark, so that the second mark of a stack is kept.
RECURSIVE RemoveMnAfterStarterFrom(_, _)
RemoveMnAfterStarterFrom(s, i) ==
    IF i > Len(s) THEN <<>>
    ELSE IF IsMn(s[i]) /\ (i = 1 \/ ~IsMn(s[i - 1]))
         THEN RemoveMnAfterStarterFrom(s, i + 1)
         ELSE <<s[i]>> \o RemoveMnAfterStarterFrom(s, i + 1)

RemoveMnAfterStarter(s) == RemoveMnAfterStarterFrom(s, 1)

RECURSIVE RemoveMn(_)
RemoveMn(s) ==
    IF s = <<>> THEN <<>>
    ELSE IF IsMn(Head(s)) THEN RemoveMn(Tail(s))
    ELSE <<Head(s)>> \o RemoveMn(Tail(s))

\* Canonical composition of a decomposed, ordered text.  out is the text
\* composed so far and st the position in out of the last starter (0: none).
\* s[i] combines with the starter unless a code point between them blocks it.
RECURSIVE ComposeFrom(_, _, _, _)
ComposeFrom(s, i, out, st) ==
    IF i > Len(s) THEN out
    ELSE LET c == s[i]
             blocked == Len(out) > st /\ CCC(out[Len(out)]) >= CCC(c)
             comp == IF st = 0 \/ blocked THEN 0 ELSE Composite(out[st], c)
         IN  IF comp # 0
             THEN ComposeFrom(s, i + 1, [out EXCEPT ![st] = comp], st)
             ELSE ComposeFrom(s, i + 1, Append(out, c),
                              IF CCC(c) = 0 THEN Len(out) + 1 ELSE st)

NFC(s) == ComposeFrom(NFD(s), 1, <<>>, 0)

(***************************************************************************)
(* Helpers of provider.go                                                  *)
(***************************************************************************)
\* The error transform.String returns to latinize during the call: "nil", or
\* the text of the error.  The chained transformers report none on a string
\* (Spec); SpecFailure lets the library report one, to reach the branch
\* `if err != nil` of the Run methods.
VARIABLE transformErr

\* Variant: the chain lacks runes.Remove.
latinizeNoRemove(s) == [result |-> NFC(NFD(s)), err |-> transformErr]

\* Variant: the chain lacks norm.NFD, marks are removed from the raw text.
latinizeNoDecompose(s) == [result |-> NFC(RemoveMn(s)), err |-> transformErr]

\* Variant: the chain lacks the closing norm.NFC.
latinizeNoRecompose(s) == [result |-> RemoveMn(NFD(s)), err |-> transformErr]

\* latinize: transform.String(transform.Chain(norm.NFD, runes.Remove(Mn),
\* norm.NFC), input), returning the result and the error.
latinize(s) == [result |-> NFC(RemoveMn(NFD(s))), err |-> transformErr]

\* Variant: the test is unicode.IsLetter or unicode.IsDigit.
IsWordRuneUnicode(r) == IsLetter(r) \/ IsDigit(r)

\* Variant: the test accepts ASCII letters only.
IsWordRuneLetters(r) == (r >= 65 /\ r <= 90) \/ (r >= 97 /\ r <= 122)

\* The test of splitWords' loop: an ASCII letter or digit.
IsWordRune(r) ==
    \/ (r >= 65 /\ r <= 90)
    \/ (r >= 97 /\ r <= 122)
    \/ (r >= 48 /\ r <= 57)

\* Variant: the builder's content is not flushed after the loop.
RECURSIVE SplitLoopNoFlush(_, _, _, _)
SplitLoopNoFlush(s, i, words, word) ==
    IF i > Len(s)
    THEN words
    ELSE IF IsWordRune(s[i])
         THEN SplitLoopNoFlush(s, i + 1, words, Append(word, s[i]))
         ELSE IF Len(word) > 0
              THEN SplitLoopNoFlush(s, i + 1, Append(words, word), <<>>)
              ELSE SplitLoopNoFlush(s, i + 1, words, word)

\* The loop of splitWords from position i, with the words found so far and
\* the builder's content, followed by the flush after the loop.
RECURSIVE SplitLoop(_, _, _, _)
SplitLoop(s, i, words, word) ==
    IF i > Len(s)
    THEN IF Len(word) > 0 THEN Append(words, word) ELSE words
    ELSE IF IsWordRune(s[i])
         THEN SplitLoop(s, i + 1, words, Append(word, s[i]))
         ELSE IF Len(word) > 0
              THEN SplitLoop(s, i + 1, Append(words, word), <<>>)
              ELSE SplitLoop(s, i + 1, words, word)

splitWords(s) == SplitLoop(s, 1, <<>>, <<>>)

\* Variant: the rune is not tested with unicode.IsLetter first.
hasDiacriticAnyRune(r) ==
    LET decomposed == NFD(<<r>>)
    IN  \E k \in 1..Len(decomposed) : IsMn(decomposed[k])

hasDiacritic(r) ==
    IF ~IsLetter(r) THEN FALSE
    ELSE LET decomposed == NFD(<<r>>)
         IN  \E k \in 1..Len(decomposed) : IsMn(decomposed[k])

\* Variant: only the five vowel letters count, a diacritic does not.
isVowelPlain(r) == ToLower(r) \in {97, 101, 105, 111, 117}

isVowel(r) ==
    IF ToLower(r) \in {97, 101, 105, 111, 117} THEN TRUE ELSE hasDiacritic(r)

(***************************************************************************)
(* Package strings                                                         *)
(***************************************************************************)
StringsToLower(s) == [k \in 1..Len(s) |-> ToLower(s[k])]

StringsToUpper(s) == [k \in 1..Len(s) |-> ToUpper(s[k])]

\* Variant: the separator is written after every element, the last included.
RECURSIVE StringsJoinTrailing(_, _)
StringsJoinTrailing(elems, sep) ==
    IF Len(elems) = 0 THEN <<>>
    ELSE elems[1] \o sep \o StringsJoinTrailing(Tail(elems), sep)

RECURSIVE StringsJoin(_, _)
StringsJoin(elems, sep) ==
    IF Len(elems) = 0 THEN <<>>
    ELSE IF Len(elems) = 1 THEN elems[1]
    ELSE elems[1] \o sep \o StringsJoin(Tail(elems), sep)

\* strings.isSeparator: ASCII letters, digits and '_' are no separators,
\* every other ASCII code point is; beyond ASCII only spaces are.
isSeparator(r) ==
    IF r <= 127
    THEN ~(IsWordRune(r) \/ r = 95)
    ELSE IF IsLetter(r) \/ IsDigit(r) THEN FALSE
    ELSE IsSpace(r)

\* strings.Title: the code point after a separator (or at the start, where
\* prev is ' ') is mapped with unicode.ToTitle, every other one is kept.
RECURSIVE TitleFrom(_, _, _)
TitleFrom(s, i, prev) ==
    IF i > Len(s) THEN <<>>
    ELSE <<IF isSeparator(prev) THEN ToTitle(s[i]) ELSE s[i]>>
         \o TitleFrom(s, i + 1, s[i])

\* Variant: a digit counts as a separator, the letter after it is uppercased.
RECURSIVE TitleFromDigitBreaks(_, _, _)
TitleFromDigitBreaks(s, i, prev) ==
    IF i > Len(s) THEN <<>>
    ELSE <<IF isSeparator(prev) \/ IsDigit(prev) THEN ToTitle(s[i]) ELSE s[i]>>
         \o TitleFromDigitBreaks(s, i + 1, s[i])

StringsTitleDigitBreaks(s) == TitleFromDigitBreaks(s, 1, 32)

StringsTitle(s) == TitleFrom(s, 1, 32)

(***************************************************************************)
(* The bodies of the Run methods after the argument is read: the value     *)
(* each passes to resp.Result.Set, computed from the latinized text        *)
(* (ascii .. ada) or from the raw argument (elite, sponge).                *)
(***************************************************************************)
\* unicode.MaxASCII
MaxASCII == 127

\* Variant: a code point beyond ASCII is replaced by '?' instead of dropped.
RECURSIVE AsciiLoopSubstitute(_)
AsciiLoopSubstitute(latinized) ==
    IF latinized = <<>> THEN <<>>
    ELSE <<IF Head(latinized) <= MaxASCII THEN Head(latinized) ELSE 63>>
         \o AsciiLoopSubstitute(Tail(latinized))

\* AsciiFunction.Run, the loop over latinized.
RECURSIVE AsciiLoop(_)
AsciiLoop(latinized) ==
    IF latinized = <<>> THEN <<>>
    ELSE IF Head(latinized) <= MaxASCII
         THEN <<Head(latinized)>> \o AsciiLoop(Tail(latinized))
         ELSE AsciiLoop(Tail(latinized))

\* Variant: the upper limit is MaxASCII, DEL is kept.
RECURSIVE AsciiPrintableLoopWithDel(_)
AsciiPrintableLoopWithDel(latinized) ==
    IF latinized = <<>> THEN <<>>
    ELSE IF Head(latinized) >= 32 /\ Head(latinized) <= MaxASCII
         THEN <<Head(latinized)>> \o AsciiPrintableLoopWithDel(Tail(latinized))
         ELSE AsciiPrintableLoopWithDel(Tail(latinized))

\* AsciiPrintableFunction.Run, the loop over latinized.
RECURSIVE AsciiPrintableLoop(_)
AsciiPrintableLoop(latinized) ==
    IF latinized = <<>> THEN <<>>
    ELSE IF Head(latinized) >= 32 /\ Head(latinized) <= 126
         THEN <<Head(latinized)>> \o AsciiPrintableLoop(Tail(latinized))
         ELSE AsciiPrintableLoop(Tail(latinized))

\* FlatFunction.Run
FlatRender(latinized) == StringsToLower(StringsJoin(splitWords(latinized), <<>>))

\* KebabFunction.Run
\* Variant: the words are joined with "".
KebabRenderNoSeparator(latinized) ==
    LET words == splitWords(latinized)
    IN  StringsJoin([i \in 1..Len(words) |-> StringsToLower(words[i])], <<>>)

KebabRender(latinized) ==
    LET words == splitWords(latinized)
    IN  StringsJoin([i \in 1..Len(words) |-> StringsToLower(words[i])], <<45>>)

\* CamelFunction.Run: the loop over words[1:], appending to the builder.
RECURSIVE CamelLoop(_, _, _)
CamelLoop(words, i, built) ==
    IF i > Len(words) THEN built
    ELSE CamelLoop(words, i + 1,
                   built \o StringsTitle(StringsToLower(words[i])))

\* Variant: the loop starts at the first word, which is title-cased too.
CamelRenderAllTitled(latinized) ==
    LET words == splitWords(latinized)
    IN  IF Len(words) = 0 THEN <<>> ELSE CamelLoop(words, 1, <<>>)

CamelRender(latinized) ==
    LET words == splitWords(latinized)
    IN  IF Len(words) = 0 THEN <<>>
        ELSE CamelLoop(words, 2, StringsToLower(words[1]))

\* PascalFunction.Run: the loop over words, appending to the builder.
RECURSIVE PascalLoop(_, _, _)
PascalLoop(words, i, built) ==
    IF i > Len(words) THEN built
    ELSE PascalLoop(words, i + 1,
                    built \o StringsTitle(StringsToLower(words[i])))

PascalRender(latinized) == PascalLoop(splitWords(latinized), 1, <<>>)

\* SnakeFunction.Run
SnakeRender(latinized) ==
    LET words == splitWords(latinized)
    IN  StringsJoin([i \in 1..Len(words) |-> StringsToLower(words[i])], <<95>>)

\* UpperFunction.Run
\* Variant: the words are joined with "-".
UpperRenderHyphen(latinized) ==
    LET words == splitWords(latinized)
    IN  StringsJoin([i \in 1..Len(words) |-> StringsToUpper(words[i])], <<45>>)

UpperRender(latinized) ==
    LET words == splitWords(latinized)
    IN  StringsJoin([i \in 1..Len(words) |-> StringsToUpper(words[i])], <<95>>)

\* TrainFunction.Run
TrainRender(latinized) ==
    LET words == splitWords(latinized)
    IN  StringsJoin([i \in 1..Len(words) |-> StringsToUpper(words[i])], <<45>>)

\* AdaFunction.Run
\* Variant: the words are joined with "".
AdaRenderNoSeparator(latinized) ==
    LET words == splitWords(latinized)
    IN  StringsJoin([i \in 1..Len(words) |->
                        StringsTitle(StringsToLower(words[i]))], <<>>)

AdaRender(latinized) ==
    LET words == splitWords(latinized)
    IN  StringsJoin([i \in 1..Len(words) |->
                        StringsTitle(StringsToLower(words[i]))], <<95>>)

\* EliteFunction.Run, the body of the loop for one code point.
EliteRune(r) ==
    IF IsLetter(r)
    THEN IF isVowel(r) THEN ToLower(r) ELSE ToUpper(r)
    ELSE r

\* Variant: the loop runs over the latinized argument.
EliteLoopLatinized(in) ==
    LET l == latinize(in).result
    IN  [k \in 1..Len(l) |-> EliteRune(l[k])]

EliteLoop(in) == [k \in 1..Len(in) |-> EliteRune(in[k])]

\* SpongeFunction.Run, the loop from position i with the builder's content
\* and the flag useLower.
RECURSIVE SpongeLoop(_, _, _, _)
SpongeLoop(in, i, built, useLower) ==
    IF i > Len(in) THEN built
    ELSE IF IsLetter(in[i])
         THEN SpongeLoop(in, i + 1,
                         Append(built, IF useLower THEN ToLower(in[i])
                                       ELSE ToUpper(in[i])),
                         ~useLower)
         ELSE SpongeLoop(in, i + 1, Append(built, in[i]), TRUE)

SpongeRender(in) == SpongeLoop(in, 1, <<>>, TRUE)

\* Variant: a non-letter is copied but leaves the flag as it is.
SpongeRuneNoReset(r, flag) ==
    IF IsLetter(r)
    THEN [out |-> IF flag THEN ToLower(r) ELSE ToUpper(r), useLower |-> ~flag]
    ELSE [out |-> r, useLower |-> flag]

\* SpongeFunction.Run, the body of the loop for the code point r with the
\* flag at flag: the code point written and the flag afterwards.
\* Variant: a non-letter flips the flag as a letter does.
SpongeRuneFlipAlways(r, flag) ==
    IF IsLetter(r)
    THEN [out |-> IF flag THEN ToLower(r) ELSE ToUpper(r), useLower |-> ~flag]
    ELSE [out |-> r, useLower |-> ~flag]

SpongeRune(r, flag) ==
    IF IsLetter(r)
    THEN [out |-> IF flag THEN ToLower(r) ELSE ToUpper(r), useLower |-> ~flag]
    ELSE [out |-> r, useLower |-> TRUE]

(***************************************************************************)
(* State.  The call: its argument, the function that runs ("none" before   *)
(* the call), the response resp.Result (set or not) and resp.Error ("nil"  *)
(* or the error's text), and the locals of SpongeFunction.Run's loop: the  *)
(* position in the argument, the builder and the flag useLower.  A second  *)
(* call with its own argument, response and locals runs beside the first   *)
(* in SpecConcurrent.                                                      *)
(***************************************************************************)
VARIABLES input, called, result, resultSet, respError, pos, builder, useLower,
          input2, called2, result2, resultSet2, pos2, builder2, useLower2

loop == <<pos, builder, useLower>>

second == <<input2, called2, result2, resultSet2, pos2, builder2, useLower2>>

vars == <<input, called, result, resultSet, respError, transformErr, loop, second>>

\* Variant: NewLatinizeFunction is not in the list.
FunctionsWithoutLatinize ==
    {"ascii", "ascii_printable", "flat", "kebab", "camel", "pascal", "snake",
     "upper", "train", "ada", "elite", "sponge"}

Functions ==
    {"ascii", "ascii_printable", "latinize", "flat", "kebab", "camel",
     "pascal", "snake", "upper", "train", "ada", "elite", "sponge"}

\* The texts of the specifications that run two calls or let latinize fail.
MaxCallLen == 2

CallAlphabet == {45, 110}

CallTexts == UNION {[1..n -> CallAlphabet] : n \in 0..MaxCallLen}

FailTexts == UNION {[1..n -> Alphabet] : n \in 0..MaxCallLen}

\* Texts with U+0130 (304), the capital I with dot above,
\* whose lowercase mapping in package unicode is the plain 'i':
\*   45 '-', 65 'A', 110 'n', 304, 324 n-acute, 769, 44032
DottedAlphabet == {45, 65, 110, 304, 324, 769, 44032}

DottedTexts == UNION {[1..n -> DottedAlphabet] : n \in 0..MaxLen}

TransformErrors == {"transform: short destination buffer"}

TypeOK ==
    /\ input \in Texts \cup DottedTexts
    /\ called \in Functions \cup {"none"}
    /\ result \in Seq(Int)
    /\ resultSet \in BOOLEAN
    /\ respError \in TransformErrors \cup {"nil"}
    /\ transformErr \in TransformErrors \cup {"nil"}
    /\ pos \in 0..(MaxLen + 1)
    /\ builder \in Seq(Int)
    /\ useLower \in BOOLEAN
    /\ input2 \in Seq(Int)
    /\ called2 \in Functions \cup {"none"}
    /\ result2 \in Seq(Int)
    /\ resultSet2 \in BOOLEAN
    /\ pos2 \in 0..(MaxCallLen + 1)
    /\ builder2 \in Seq(Int)
    /\ useLower2 \in BOOLEAN

\* Before the call: the arguments are drawn from texts and texts2, the
\* outcome of transform.String from errs; nothing is set and no loop runs.
Start(texts, texts2, errs) ==
    /\ input \in texts
    /\ called = "none"
    /\ result = <<>>
    /\ resultSet = FALSE
    /\ respError = "nil"
    /\ transformErr \in errs
    /\ pos = 0
    /\ builder = <<>>
    /\ useLower = FALSE
    /\ input2 \in texts2
    /\ called2 = "none"
    /\ result2 = <<>>
    /\ resultSet2 = FALSE
    /\ pos2 = 0
    /\ builder2 = <<>>
    /\ useLower2 = FALSE

Init == Start(Texts, {<<>>}, {"nil"})

\* Variant: an empty value is not written to the response.
RespondUnlessEmpty(name, value) ==
    /\ called' = name
    /\ result' = value
    /\ resultSet' = (value # <<>>)
    /\ UNCHANGED <<input, respError, transformErr, loop, second>>

\* resp.Result.Set(ctx, value)
Respond(name, value) ==
    /\ called' = name
    /\ result' = value
    /\ resultSet' = TRUE
    /\ UNCHANGED <<input, respError, transformErr, loop, second>>

\* resp.Error = function.NewFuncError(err.Error()); return
\* Variant: the text transformed so far is written to the response as well.
FailKeepingResult(name, err) ==
    /\ called' = name
    /\ respError' = err
    /\ result' = latinize(input).result
    /\ resultSet' = TRUE
    /\ UNCHANGED <<input, transformErr, loop, second>>

Fail(name, err) ==
    /\ called' = name
    /\ respError' = err
    /\ UNCHANGED <<input, result, resultSet, transformErr, loop, second>>

AsciiFunctionRun ==
    /\ called = "none"
    /\ LET l == latinize(input)
       IN  IF l.err # "nil" THEN Fail("ascii", l.err)
           ELSE Respond("ascii", AsciiLoop(l.result))

AsciiPrintableFunctionRun ==
    /\ called = "none"
    /\ LET l == latinize(input)
       IN  IF l.err # "nil" THEN Fail("ascii_printable", l.err)
           ELSE Respond("ascii_printable", AsciiPrintableLoop(l.result))

LatinizeFunctionRun ==
    /\ called = "none"
    /\ LET l == latinize(input)
       IN  IF l.err # "nil" THEN Fail("latinize", l.err)
           ELSE Respond("latinize", l.result)

FlatFunctionRun ==
    /\ called = "none"
    /\ LET l == latinize(input)
       IN  IF l.err # "nil" THEN Fail("flat", l.err)
           ELSE Respond("flat", FlatRender(l.result))

KebabFunctionRun ==
    /\ called = "none"
    /\ LET l == latinize(input)
       IN  IF l.err # "nil" THEN Fail("kebab", l.err)
           ELSE Respond("kebab", KebabRender(l.result))

CamelFunctionRun ==
    /\ called = "none"
    /\ LET l == latinize(input)
       IN  IF l.err # "nil" THEN Fail("camel", l.err)
           ELSE Respond("camel", CamelRender(l.result))

PascalFunctionRun ==
    /\ called = "none"
    /\ LET l == latinize(input)
       IN  IF l.err # "nil" THEN Fail("pascal", l.err)
           ELSE Respond("pascal", PascalRender(l.result))

SnakeFunctionRun ==
    /\ called = "none"
    /\ LET l == latinize(input)
       IN  IF l.err # "nil" THEN Fail("snake", l.err)
           ELSE Respond("snake", SnakeRender(l.result))

UpperFunctionRun ==
    /\ called = "none"
    /\ LET l == latinize(input)
       IN  IF l.err # "nil" THEN Fail("upper", l.err)
           ELSE Respond("upper", UpperRender(l.result))

TrainFunctionRun ==
    /\ called = "none"
    /\ LET l == latinize(input)
       IN  IF l.err # "nil" THEN Fail("train", l.err)
           ELSE Respond("train", TrainRender(l.result))

AdaFunctionRun ==
    /\ called = "none"
    /\ LET l == latinize(input)
       IN  IF l.err # "nil" THEN Fail("ada", l.err)
           ELSE Respond("ada", AdaRender(l.result))

EliteFunctionRun ==
    /\ called = "none"
    /\ Respond("elite", EliteLoop(input))

\* SpongeFunction.Run up to the loop: var result strings.Builder; useLower := true
SpongeFunctionRun ==
    /\ called = "none"
    /\ called' = "sponge"
    /\ pos' = 1
    /\ builder' = <<>>
    /\ useLower' = TRUE
    /\ UNCHANGED <<input, result, resultSet, respError, transformErr, second>>

\* One turn of the loop `for _, r := range input`.
SpongeFunctionStep ==
    /\ called = "sponge"
    /\ ~resultSet
    /\ pos <= Len(input)
    /\ LET turn == SpongeRune(input[pos], useLower)
       IN  /\ builder' = Append(builder, turn.out)
           /\ useLower' = turn.useLower
    /\ pos' = pos + 1
    /\ UNCHANGED <<input, called, result, resultSet, respError, transformErr,
                   second>>

\* After the loop: resp.Result.Set(ctx, result.String())
SpongeFunctionReturn ==
    /\ called = "sponge"
    /\ ~resultSet
    /\ pos > Len(input)
    /\ Respond("sponge", builder)

Next ==
    \/ AsciiFunctionRun
    \/ AsciiPrintableFunctionRun
    \/ LatinizeFunctionRun
    \/ FlatFunctionRun
    \/ KebabFunctionRun
    \/ CamelFunctionRun
    \/ PascalFunctionRun
    \/ SnakeFunctionRun
    \/ UpperFunctionRun
    \/ TrainFunctionRun
    \/ AdaFunctionRun
    \/ EliteFunctionRun
    \/ SpongeFunctionRun
    \/ SpongeFunctionStep
    \/ SpongeFunctionReturn

Spec == Init /\ [][Next]_vars

InitDotted == Start(DottedTexts, {<<>>}, {"nil"})

SpecDotted == InitDotted /\ [][Next]_vars

(***************************************************************************)
(* Calls whose transform may fail                                          *)
(***************************************************************************)
\* transform.String returns either no error or an error; a call on any text
\* of FailTexts starts with either outcome ahead.
InitFailure == Start(FailTexts, {<<>>}, {"nil"} \cup TransformErrors)

SpecFailure == InitFailure /\ [][Next]_vars

(***************************************************************************)
(* Function definitions                                                    *)
(***************************************************************************)
\* The Definition method of the function called name: one
\* function.StringParameter named "input", which does not allow null, and a
\* function.StringReturn.
Definition(name) ==
    [Parameters |-> << [Type |-> "String", Name |-> "input",
                        AllowNullValue |-> FALSE] >>,
     Return |-> "String"]

(***************************************************************************)
(* Two calls running at the same time                                      *)
(***************************************************************************)
\* What the Run method of the function called name writes to the response
\* for the argument t when the transform does not fail.
Output(name, t) ==
    LET latinized == latinize(t).result
    IN  CASE name = "ascii"           -> AsciiLoop(latinized)
          [] name = "ascii_printable" -> AsciiPrintableLoop(latinized)
          [] name = "latinize"        -> latinized
          [] name = "flat"            -> FlatRender(latinized)
          [] name = "kebab"           -> KebabRender(latinized)
          [] name = "camel"           -> CamelRender(latinized)
          [] name = "pascal"          -> PascalRender(latinized)
          [] name = "snake"           -> SnakeRender(latinized)
          [] name = "upper"           -> UpperRender(latinized)
          [] name = "train"           -> TrainRender(latinized)
          [] name = "ada"             -> AdaRender(latinized)
          [] name = "elite"           -> EliteLoop(t)
          [] name = "sponge"          -> SpongeRender(t)

\* A second call of any function but sponge, on its own request and
\* response.
SecondCallRun ==
    /\ called2 = "none"
    /\ \E name \in Functions \ {"sponge"} :
          /\ called2' = name
          /\ result2' = Output(name, input2)
          /\ resultSet2' = TRUE
    /\ UNCHANGED <<input, called, result, resultSet, respError, transformErr,
                   loop, input2, pos2, builder2, useLower2>>

\* A second call of SpongeFunction.Run, with its own builder and useLower.
SecondSpongeRun ==
    /\ called2 = "none"
    /\ called2' = "sponge"
    /\ pos2' = 1
    /\ builder2' = <<>>
    /\ useLower2' = TRUE
    /\ UNCHANGED <<input, called, result, resultSet, respError, transformErr,
                   loop, input2, result2, resultSet2>>

\* Variant: useLower is one variable shared by the two calls.
SecondSpongeStepSharedFlag ==
    /\ called2 = "sponge"
    /\ ~resultSet2
    /\ pos2 <= Len(input2)
    /\ LET turn == SpongeRune(input2[pos2], useLower)
       IN  /\ builder2' = Append(builder2, turn.out)
           /\ useLower' = turn.useLower
    /\ pos2' = pos2 + 1
    /\ UNCHANGED <<input, called, result, resultSet, respError, transformErr,
                   pos, builder, input2, called2, result2, resultSet2,
                   useLower2>>

SecondSpongeStep ==
    /\ called2 = "sponge"
    /\ ~resultSet2
    /\ pos2 <= Len(input2)
    /\ LET turn == SpongeRune(input2[pos2], useLower2)
       IN  /\ builder2' = Append(builder2, turn.out)
           /\ useLower2' = turn.useLower
    /\ pos2' = pos2 + 1
    /\ UNCHANGED <<input, called, result, resultSet, respError, transformErr,
                   loop, input2, called2, result2, resultSet2>>

SecondSpongeReturn ==
    /\ called2 = "sponge"
    /\ ~resultSet2
    /\ pos2 > Len(input2)
    /\ result2' = builder2
    /\ resultSet2' = TRUE
    /\ UNCHANGED <<input, called, result, resultSet, respError, transformErr,
                   loop, input2, called2, pos2, builder2, useLower2>>

InitConcurrent == Start(CallTexts, CallTexts, {"nil"})

NextConcurrent ==
    \/ Next
    \/ SecondCallRun
    \/ SecondSpongeRun
    \/ SecondSpongeStep
    \/ SecondSpongeReturn

SpecConcurrent == InitConcurrent /\ [][NextConcurrent]_vars

(***************************************************************************)
(* A call and a second call on the same argument or on the first result    *)
(***************************************************************************)
\*   45 '-', 50 '2', 65 'A', 110 'n', 324 n-acute, 769 combining acute
ComposedAlphabet == {45, 50, 65, 110, 324, 769}

ComposedTexts == UNION {[1..n -> ComposedAlphabet] : n \in 0..MaxLen}

\* A second call of any function but sponge with the argument arg.
SecondCallOn(arg) ==
    /\ called2 = "none"
    /\ \E name \in Functions \ {"sponge"} :
          /\ called2' = name
          /\ result2' = Output(name, arg)
    /\ input2' = arg
    /\ resultSet2' = TRUE
    /\ UNCHANGED <<input, called, result, resultSet, respError, transformErr,
                   loop, pos2, builder2, useLower2>>

\* Two functions called with one argument, as in "${upper(x)} ${snake(x)}".
SameArgumentCallRun == SecondCallOn(input)

\* A function called with the result of another, as in kebab(kebab(x)).
NestedCallRun == resultSet /\ SecondCallOn(result)

InitComposed == Start(ComposedTexts, {<<>>}, {"nil"})

NextComposed ==
    \/ Next
    \/ SameArgumentCallRun
    \/ NestedCallRun

SpecComposed == InitComposed /\ [][NextComposed]_vars

(***************************************************************************)
(* Vocabulary of the properties, stated without the code's operators:      *)
(* ASCII case by arithmetic, joining by position, accents by enumeration.  *)
(***************************************************************************)
IsAsciiLetter(c) == c \in 65..90 \/ c \in 97..122

AsciiLower(c) == IF c \in 65..90 THEN c + 32 ELSE c

AsciiUpper(c) == IF c \in 97..122 THEN c - 32 ELSE c

LowerToken(w) == [k \in 1..Len(w) |-> AsciiLower(w[k])]

UpperToken(w) == [k \in 1..Len(w) |-> AsciiUpper(w[k])]

\* Title-case with the first code point uppercased and the others lowercased.
TitleToken(w) ==
    [k \in 1..Len(w) |-> IF k = 1 THEN AsciiUpper(w[k]) ELSE AsciiLower(w[k])]

\* Title-case with the first letter (the first code point that is a letter)
\* uppercased and the other letters lowercased.
FirstLetterAt(w) ==
    IF \E k \in 1..Len(w) : IsAsciiLetter(w[k])
    THEN CHOOSE k \in 1..Len(w) :
            /\ IsAsciiLetter(w[k])
            /\ \A j \in 1..(k - 1) : ~IsAsciiLetter(w[j])
    ELSE 0

TitleTokenByLetter(w) ==
    [k \in 1..Len(w) |->
        IF k = FirstLetterAt(w) THEN AsciiUpper(w[k]) ELSE AsciiLower(w[k])]

\* The tokens written one after the other with sep between neighbours.
RECURSIVE Joined(_, _, _)
Joined(tokens, sep, n) ==
    IF n = 0 THEN <<>>
    ELSE IF n = 1 THEN tokens[1]
    ELSE Joined(tokens, sep, n - 1) \o sep \o tokens[n]

Separator(style) ==
    CASE style \in {"flat", "camel", "pascal"} -> <<>>
      [] style \in {"kebab", "train"}          -> <<45>>
      [] style \in {"snake", "upper", "ada"}   -> <<95>>

\* The tokens of the call's argument: splitWords(latinize(input)).
Tokens == splitWords(latinize(input).result)

Returned(name) == called = name /\ resultSet /\ respError = "nil"

\* C1: flat, kebab and snake return the tokens of splitWords(latinize(T))
\* lowercased, upper and train return them uppercased, joined in order with
\* "" (flat), "-" (kebab, train) or "_" (snake, upper).
C1_SimpleStyles ==
    \A style \in {"flat", "kebab", "snake", "upper", "train"} :
        Returned(style) =>
            LET cased == [i \in 1..Len(Tokens) |->
                            IF style \in {"upper", "train"}
                            THEN UpperToken(Tokens[i])
                            ELSE LowerToken(Tokens[i])]
            IN  result = Joined(cased, Separator(style), Len(cased))

C1_Witness ==
    /\ called \in {"flat", "kebab", "snake", "upper", "train"}
    /\ resultSet
    /\ Len(Tokens) >= 2
    /\ \E k \in 1..Len(input) : IsAsciiLetter(input[k]) /\ input[k] \notin
                                  {result[j] : j \in 1..Len(result)}

\* C2: camel returns the first token lowercased followed by every later
\* token in Title-case, with no separator, and "" when there is no token.
C2_Camel ==
    Returned("camel") =>
        LET cased == [i \in 1..Len(Tokens) |->
                        IF i = 1 THEN LowerToken(Tokens[i])
                        ELSE TitleToken(Tokens[i])]
        IN  /\ result = Joined(cased, <<>>, Len(cased))
            /\ (Len(Tokens) = 0 => result = <<>>)

C2_Witness ==
    /\ Returned("camel")
    /\ Len(Tokens) >= 2
    /\ Tokens[1] # LowerToken(Tokens[1])
    /\ Tokens[2] # TitleToken(Tokens[2])

\* C3 as stated: pascal and ada turn every token into the token with its
\* first letter uppercased and all remaining letters lowercased, and join
\* the tokens with "" (pascal) or "_" (ada).
C3_TitleByFirstLetter ==
    \A style \in {"pascal", "ada"} :
        Returned(style) =>
            LET cased == [i \in 1..Len(Tokens) |-> TitleTokenByLetter(Tokens[i])]
            IN  result = Joined(cased, Separator(style), Len(cased))

\* C3 as amended: pascal and ada turn every token into the token with its
\* first code point uppercased when that is a letter and every other letter
\* lowercased (a token that starts with a digit has no uppercase letter),
\* and join the tokens with "" (pascal) or "_" (ada).
C3_TitleByFirstRune ==
    \A style \in {"pascal", "ada"} :
        Returned(style) =>
            LET cased == [i \in 1..Len(Tokens) |-> TitleToken(Tokens[i])]
            IN  result = Joined(cased, Separator(style), Len(cased))

C3_Witness ==
    /\ called \in {"pascal", "ada"}
    /\ resultSet
    /\ \E i \in 1..Len(Tokens) :
          /\ ~IsAsciiLetter(Tokens[i][1])
          /\ \E k \in 2..Len(Tokens[i]) : IsAsciiLetter(Tokens[i][k])

\* a is b with zero or more code points dropped, the others kept in order.
RECURSIVE IsSubsequence(_, _)
IsSubsequence(a, b) ==
    IF a = <<>> THEN TRUE
    ELSE IF b = <<>> THEN FALSE
    ELSE IF Head(a) = Head(b) THEN IsSubsequence(Tail(a), Tail(b))
    ELSE IsSubsequence(a, Tail(b))

\* C4: ascii(T) contains only code points <= 127 and is a subsequence of
\* latinize(T).
C4_AsciiSubsequence ==
    Returned("ascii") =>
        /\ \A k \in 1..Len(result) : result[k] >= 0 /\ result[k] <= 127
        /\ IsSubsequence(result, latinize(input).result)

C4_Witness ==
    /\ Returned("ascii")
    /\ Len(result) > 0
    /\ Len(result) < Len(latinize(input).result)

\* The accented Latin letters whose unaccented form is an ASCII letter.
AccentedAscii == {193, 225, 304, 323, 324}

BaseLetter(c) ==
    CASE c = 193 -> 65 [] c = 225 -> 97 [] c = 323 -> 78 [] c = 324 -> 110
      [] c = 304 -> 73 [] OTHER -> c

\* What ascii or ascii_printable returns on the text t.
Filtered(name, t) ==
    IF name = "ascii" THEN AsciiLoop(latinize(t).result)
    ELSE AsciiPrintableLoop(latinize(t).result)

IsPrefix(a, b) == Len(a) <= Len(b) /\ a = SubSeq(b, 1, Len(a))

\* C5: in ascii and ascii_printable an accented letter whose latinized form
\* is an ASCII letter is not dropped: the output for the argument up to and
\* including the letter is the output for the argument before it followed
\* by the base letter, and the whole output starts with it.
C5_AccentBeforeFilter ==
    \A name \in {"ascii", "ascii_printable"} :
        Returned(name) =>
            \A i \in 1..Len(input) :
                input[i] \in AccentedAscii =>
                    LET before == Filtered(name, SubSeq(input, 1, i - 1))
                    IN  IsPrefix(Append(before, BaseLetter(input[i])), result)

C5_Witness ==
    /\ called \in {"ascii", "ascii_printable"}
    /\ resultSet
    /\ Len(input) >= 2
    /\ input[1] \notin AccentedAscii
    /\ input[2] \in AccentedAscii
    /\ Len(result) >= 2

\* t without the control code points 0..31 and 127.
RECURSIVE WithoutControls(_)
WithoutControls(t) ==
    IF t = <<>> THEN <<>>
    ELSE IF Head(t) \in 0..31 \/ Head(t) = 127 THEN WithoutControls(Tail(t))
    ELSE <<Head(t)>> \o WithoutControls(Tail(t))

\* C6: ascii_printable(T) contains only code points in 32..126 and equals
\* ascii(T) with the control code points 0..31 and 127 removed.
C6_PrintableIsAsciiWithoutControls ==
    Returned("ascii_printable") =>
        /\ \A k \in 1..Len(result) : result[k] \in 32..126
        /\ result = WithoutControls(Filtered("ascii", input))

C6_Witness ==
    /\ Returned("ascii_printable")
    /\ \E k \in 1..Len(input) : input[k] = 9
    /\ \E k \in 1..Len(input) : input[k] = 127
    /\ Len(result) > 0

\* The non-spacing combining marks.
NonSpacingMarks == {769, 774, 775}

\* A text of ASCII code points, accented Latin letters and combining marks.
IsLatinText(t) ==
    \A k \in 1..Len(t) :
        t[k] \in 0..127 \/ t[k] \in AccentedAscii \/ t[k] \in NonSpacingMarks

\* t with every accented Latin letter replaced by its base letter and
\* every combining mark deleted.
RECURSIVE Unaccented(_)
Unaccented(t) ==
    IF t = <<>> THEN <<>>
    ELSE IF Head(t) \in NonSpacingMarks THEN Unaccented(Tail(t))
    ELSE <<BaseLetter(Head(t))>> \o Unaccented(Tail(t))

\* No two neighbours of t have a primary composite.
IsComposed(t) ==
    \A k \in 1..(Len(t) - 1) :
        <<t[k], t[k + 1]>> \notin
            {<<65, 769>>, <<97, 769>>, <<78, 769>>, <<110, 769>>,
             <<1048, 774>>, <<1080, 774>>, <<4352, 4449>>, <<73, 775>>}

\* C7: latinize(T) is T decomposed, without any non-spacing mark, and
\* recomposed: it holds no non-spacing mark and no composable pair, and
\* every accented Latin letter, precomposed or base+mark, is replaced by
\* its base letter of the same case.
C7_LatinizeStripsAccents ==
    Returned("latinize") =>
        /\ \A k \in 1..Len(result) : result[k] \notin NonSpacingMarks
        /\ IsComposed(result)
        /\ (IsLatinText(input) => result = Unaccented(input))

C7_Witness ==
    /\ Returned("latinize")
    /\ IsLatinText(input)
    /\ \E k \in 1..Len(input) : input[k] = 193
    /\ \E k \in 2..Len(input) : input[k] = 769 /\ input[k - 1] = 110
    /\ Len(result) = 2

\* C8: latinize is idempotent: latinize(latinize(T)) = latinize(T).
C8_LatinizeIdempotent ==
    Returned("latinize") => latinize(result).result = result

C8_Witness ==
    /\ Returned("latinize")
    /\ result # input
    /\ latinize(result).result = result
    /\ \E k \in 1..Len(input) : input[k] \in NonSpacingMarks

\* The scripts of the letters; Common and Inherited code points have none.
Script(c) ==
    CASE c \in {65, 73, 78, 97, 105, 110, 193, 225, 304, 323, 324} -> "Latin"
      [] c \in {1048, 1049, 1080, 1081}              -> "Cyrillic"
      [] c \in {4352, 4449, 44032}                   -> "Hangul"
      [] OTHER                                       -> "Common"

\* The letters that are a base letter with an accent that decomposes.
HasDecomposableAccent(c) == c \in {193, 225, 304, 323, 324, 1049, 1081}

\* C9 as stated: a text made only of characters of a non-Latin script and
\* of characters without a decomposable accent (combining marks, which are
\* accents themselves, left aside) is returned unchanged by latinize.
C9_NonLatinUnchanged ==
    (/\ Returned("latinize")
     /\ \A k \in 1..Len(input) :
           /\ input[k] \notin NonSpacingMarks
           /\ \/ Script(input[k]) \in {"Cyrillic", "Hangul"}
              \/ ~HasDecomposableAccent(input[k]))
    => result = input

\* C9 as amended: a text in which no character is a non-spacing mark or
\* decomposes to one, whatever its script, and in which no two neighbours
\* compose, is returned unchanged by latinize.
C9_UnmarkedComposedUnchanged ==
    (/\ Returned("latinize")
     /\ \A k \in 1..Len(input) :
           /\ input[k] \notin NonSpacingMarks
           /\ ~HasDecomposableAccent(input[k])
     /\ IsComposed(input))
    => result = input

C9_Witness ==
    /\ Returned("latinize")
    /\ \A k \in 1..Len(input) :
          input[k] \notin NonSpacingMarks /\ ~HasDecomposableAccent(input[k])
    /\ IsComposed(input)
    /\ \E k \in 1..Len(input) : input[k] = 44032
    /\ \E k \in 1..Len(input) : input[k] = 4449
    /\ result = input

\* The letters, and what elite is to make of one code point.
Letters ==
    {65, 73, 78, 97, 105, 110, 193, 225, 304, 323, 324, 1048, 1049, 1080,
     1081, 4352, 4449, 44032}

EliteOf(c) ==
    IF c \in Letters
    THEN IF ToLower(c) \in {97, 101, 105, 111, 117} \/ HasDecomposableAccent(c)
         THEN ToLower(c)
         ELSE ToUpper(c)
    ELSE c

\* C10: elite outputs, at the position of every input code point c,
\* lowercase(c) when c is a letter that is a vowel or has a diacritic,
\* uppercase(c) when c is another letter, and c when c is no letter.
C10_ElitePerCodePoint ==
    Returned("elite") =>
        /\ Len(result) = Len(input)
        /\ \A k \in 1..Len(input) : result[k] = EliteOf(input[k])

C10_Witness ==
    /\ Returned("elite")
    /\ \E k \in 1..Len(input) : input[k] = 324 /\ result[k] = 324
    /\ \E k \in 1..Len(input) : input[k] = 110 /\ result[k] = 78
    /\ \E k \in 1..Len(input) : input[k] = 193 /\ result[k] = 225

\* The number of letters at the end of the first n code points of t: the
\* letters since the last non-letter, or since the start.
RECURSIVE LettersSinceBreak(_, _)
LettersSinceBreak(t, n) ==
    IF n = 0 \/ t[n] \notin Letters THEN 0 ELSE 1 + LettersSinceBreak(t, n - 1)

LowercaseLetters == {97, 105, 110, 225, 324, 1080, 1081}

UppercaseLetters == {65, 73, 78, 193, 304, 323, 1048, 1049}

\* C11: in sponge the flag useLower is true at the start of the call and,
\* after any prefix, true iff the number of letters since the last
\* non-letter (or the start) is even; every non-letter is written unchanged;
\* the 1st, 3rd, ... letter of every maximal run of letters is written
\* lowercased and the 2nd, 4th, ... uppercased (a letter without case is
\* written as it is and counts in the run).
C11_SpongeFlag ==
    called = "sponge" =>
        /\ pos >= 1
        /\ Len(builder) = pos - 1
        /\ useLower = (LettersSinceBreak(input, pos - 1) % 2 = 0)
        /\ \A k \in 1..(pos - 1) :
              LET n == LettersSinceBreak(input, k)
              IN  /\ n = 0 => builder[k] = input[k]
                  /\ n % 2 = 1 =>
                        /\ builder[k] = ToLower(input[k])
                        /\ builder[k] \notin UppercaseLetters
                  /\ (n > 0 /\ n % 2 = 0) =>
                        /\ builder[k] = ToUpper(input[k])
                        /\ builder[k] \notin LowercaseLetters
        /\ (resultSet => pos = Len(input) + 1 /\ result = builder)

C11_Witness ==
    /\ called = "sponge"
    /\ resultSet
    /\ Len(input) = 3
    /\ input[1] \in UppercaseLetters
    /\ input[2] \notin Letters
    /\ input[3] \in UppercaseLetters
    /\ result[3] \in LowercaseLetters
    /\ ~useLower

\* The pairs of a letter and the same letter in the other case.
CasePairs ==
    {<<65, 97>>, <<73, 105>>, <<78, 110>>, <<193, 225>>, <<323, 324>>,
     <<1048, 1080>>, <<1049, 1081>>}

\* a and b are the same letter, mark included, in the same or the other case.
SameLetter(a, b) == a = b \/ <<a, b>> \in CasePairs \/ <<b, a>> \in CasePairs

\* C12 as stated: the output of elite and of sponge has as many code points
\* as the input, every non-letter is unchanged at its position, and every
\* letter differs from the input letter at its position at most in case,
\* an accented letter keeping its mark.
C12_OnlyCaseChanges ==
    \A name \in {"elite", "sponge"} :
        Returned(name) =>
            /\ Len(result) = Len(input)
            /\ \A k \in 1..Len(input) :
                  IF input[k] \in Letters
                  THEN SameLetter(result[k], input[k])
                  ELSE result[k] = input[k]

\* C12 as amended: as stated, except that a letter whose lowercase mapping
\* in package unicode is an unaccented letter loses its mark when it is
\* lowercased: U+0130, capital I with dot above, is written as 'i'.
C12_OnlyCaseMappingChanges ==
    \A name \in {"elite", "sponge"} :
        Returned(name) =>
            /\ Len(result) = Len(input)
            /\ \A k \in 1..Len(input) :
                  IF input[k] \in Letters
                  THEN \/ SameLetter(result[k], input[k])
                       \/ input[k] = 304 /\ result[k] = 105
                  ELSE result[k] = input[k]

C12_Witness ==
    /\ called \in {"elite", "sponge"}
    /\ resultSet
    /\ \E k \in 1..Len(input) : input[k] = 304 /\ result[k] = 105
    /\ \E k \in 1..Len(input) : input[k] = 324 /\ result[k] \in {323, 324}
    /\ \E k \in 1..Len(input) : input[k] = 769 /\ result[k] = 769

IsAsciiAlnum(c) == IsAsciiLetter(c) \/ c \in 48..57

CaseStyles ==
    {"flat", "kebab", "camel", "pascal", "snake", "upper", "train", "ada"}

\* The call has come to its end.
Done(name) == called = name /\ (name = "sponge" => resultSet)

\* C13: the output of each of the eight case styles contains only ASCII
\* letters, ASCII digits and the style's separator; a code point of the
\* latinized input that is neither is never in the output.
C13_OnlyAsciiAndSeparator ==
    \A style \in CaseStyles :
        Returned(style) =>
            LET sep == Separator(style)
                latinized == latinize(input).result
            IN  /\ \A k \in 1..Len(result) :
                      \/ IsAsciiAlnum(result[k])
                      \/ sep # <<>> /\ result[k] = sep[1]
                /\ \A j \in 1..Len(latinized) :
                      (~IsAsciiAlnum(latinized[j]) /\ <<latinized[j]>> # sep)
                          => \A k \in 1..Len(result) :
                                 result[k] # latinized[j]

C13_Witness ==
    /\ called = "snake"
    /\ resultSet
    /\ \E k \in 1..Len(input) : input[k] = 44032
    /\ \E k \in 1..Len(input) : input[k] = 45
    /\ result = <<110>>

\* C14: every operation applied to the empty string returns the empty string
\* without an error, and every case style returns the empty string without
\* an error for an input that yields zero tokens.
C14_EmptyLaw ==
    \A name \in Functions :
        (/\ Done(name)
         /\ \/ input = <<>>
            \/ name \in CaseStyles /\ Len(Tokens) = 0)
            => resultSet /\ respError = "nil" /\ result = <<>>

C14_Witness ==
    /\ called \in CaseStyles
    /\ resultSet
    /\ respError = "nil"
    /\ Len(input) = 3
    /\ \E k \in 1..Len(input) : input[k] \in Letters
    /\ Len(Tokens) = 0
    /\ result = <<>>

\* The number of maximal runs of ASCII letters and digits in t.
RunCount(t) ==
    Cardinality({k \in 1..Len(t) :
                    /\ IsAsciiAlnum(t[k])
                    /\ (k = 1 \/ ~IsAsciiAlnum(t[k - 1]))})

\* C15 as stated: for each of the eight case styles, splitting the output on
\* non-alphanumeric characters gives as many tokens as
\* splitWords(latinize(T)) has.
C15_TokenCountKept ==
    \A style \in CaseStyles :
        Returned(style) => RunCount(result) = Len(Tokens)

\* C15 as amended: the count is kept by the styles that join with "-" or
\* "_"; the styles that join with "" give one token when there is at least
\* one token, and none otherwise.
C15_TokenCountKeptBySeparator ==
    \A style \in CaseStyles :
        Returned(style) =>
            RunCount(result) =
                IF Separator(style) # <<>> THEN Len(Tokens)
                ELSE IF Len(Tokens) = 0 THEN 0 ELSE 1

C15_Witness ==
    /\ called = "pascal"
    /\ resultSet
    /\ Len(Tokens) = 2
    /\ RunCount(result) = 1

\* C16: for an input that is a single token of lowercase ASCII letters and
\* digits, kebab returns the input.
C16_KebabSingleToken ==
    (/\ Returned("kebab")
     /\ input # <<>>
     /\ \A k \in 1..Len(input) : input[k] \in (97..122) \cup (48..57))
        => result = input

C16_Witness ==
    /\ called = "kebab"
    /\ resultSet
    /\ Len(input) = 3
    /\ input[1] = 110
    /\ input[2] = 50
    /\ result = input

\* The positions of s where a maximal run of ASCII letters and digits starts.
RunStarts(s) ==
    {a \in 1..Len(s) :
        IsAsciiAlnum(s[a]) /\ (a = 1 \/ ~IsAsciiAlnum(s[a - 1]))}

\* The position where the maximal run that starts at a ends.
RunEnd(s, a) ==
    CHOOSE b \in a..Len(s) :
        /\ \A k \in a..b : IsAsciiAlnum(s[k])
        /\ (b = Len(s) \/ ~IsAsciiAlnum(s[b + 1]))

\* The maximal runs of ASCII letters and digits of s from left to right.
MaximalRuns(s) ==
    LET starts == RunStarts(s)
    IN  [i \in 1..Cardinality(starts) |->
            LET a == CHOOSE x \in starts :
                        Cardinality({y \in starts : y < x}) = i - 1
            IN  SubSeq(s, a, RunEnd(s, a))]

\* C20: splitWords(s) is the sequence of the maximal runs of [A-Za-z0-9] of
\* s from left to right: no token is empty, no token has another character,
\* a run at the end of s is the last token, and the tokens written one after
\* the other are s without its non-alphanumeric code points, case kept.
C20_SplitWordsMaximalRuns ==
    (called \in CaseStyles /\ resultSet /\ respError = "nil") =>
        LET s == latinize(input).result
            tokens == splitWords(s)
        IN  /\ tokens = MaximalRuns(s)
            /\ \A i \in 1..Len(tokens) :
                  /\ tokens[i] # <<>>
                  /\ \A k \in 1..Len(tokens[i]) : IsAsciiAlnum(tokens[i][k])
            /\ Joined(tokens, <<>>, Len(tokens)) = SelectSeq(s, IsAsciiAlnum)

C20_Witness ==
    /\ called \in CaseStyles
    /\ resultSet
    /\ Len(input) = 3
    /\ ~IsAsciiAlnum(input[1])
    /\ ~IsAsciiAlnum(input[2])
    /\ input[3] = 65
    /\ Tokens = <<(<<65>>)>>

\* The functions that latinize their argument first.
Latinizing == Functions \ {"elite", "sponge"}

\* C17: a call ends with a result and no error, or with an error and no
\* result.  When the transform fails in ascii, ascii_printable, latinize or
\* a case style, the error of the response is the transform's error and no
\* result is set; without a transform error these functions set a result;
\* elite and sponge never report an error.
C17_ResultOrError ==
    /\ \A name \in Functions :
          Done(name) =>
              \/ resultSet /\ respError = "nil"
              \/ ~resultSet /\ respError # "nil" /\ result = <<>>
    /\ \A name \in Latinizing :
          called = name =>
              IF transformErr # "nil"
              THEN respError = transformErr /\ ~resultSet /\ result = <<>>
              ELSE respError = "nil" /\ resultSet
    /\ called \in {"elite", "sponge"} => respError = "nil"
    /\ (called = "elite" /\ transformErr # "nil") =>
          resultSet /\ result = [k \in 1..Len(input) |-> EliteOf(input[k])]

C17_Witness ==
    /\ called \in CaseStyles
    /\ transformErr \in TransformErrors
    /\ respError = transformErr
    /\ ~resultSet
    /\ Len(input) = 2
    /\ input[1] = 193

\* C18: whatever the interleaving of two calls, sponge calls included, each
\* call writes what the same call writes when it runs alone, and in the
\* middle of a sponge loop the builder and the flag of a call are those of
\* that call running alone.
C18_CallsIndependent ==
    /\ resultSet => result = Output(called, input)
    /\ resultSet2 => result2 = Output(called2, input2)
    /\ called = "sponge" =>
          /\ builder = SubSeq(SpongeRender(input), 1, pos - 1)
          /\ useLower = (LettersSinceBreak(input, pos - 1) % 2 = 0)
    /\ called2 = "sponge" =>
          /\ builder2 = SubSeq(SpongeRender(input2), 1, pos2 - 1)
          /\ useLower2 = (LettersSinceBreak(input2, pos2 - 1) % 2 = 0)

C18_Witness ==
    /\ called = "sponge"
    /\ called2 = "sponge"
    /\ ~resultSet
    /\ ~resultSet2
    /\ pos = 2
    /\ pos2 = 2
    /\ Len(input) = 2
    /\ Len(input2) = 2
    /\ useLower # useLower2

\* C19 as stated: the provider's functions are exactly twelve, each with
\* exactly one parameter, a required string named "input", and a string
\* return; a call is a call of one of them.
C19_TwelveFunctions ==
    /\ Cardinality(Functions) = 12
    /\ \A name \in Functions :
          LET d == Definition(name)
          IN  /\ Len(d.Parameters) = 1
              /\ d.Parameters[1].Type = "String"
              /\ d.Parameters[1].Name = "input"
              /\ ~d.Parameters[1].AllowNullValue
              /\ d.Return = "String"
    /\ called # "none" => called \in Functions

\* C19 as amended: the provider's functions are exactly thirteen (ascii,
\* ascii_printable, latinize, the eight case styles, elite, sponge), each
\* with exactly one parameter, a required string named "input", and a
\* string return; a call is a call of one of them.
C19_ThirteenFunctions ==
    /\ Cardinality(Functions) = 13
    /\ \A name \in Functions :
          LET d == Definition(name)
          IN  /\ Len(d.Parameters) = 1
              /\ d.Parameters[1].Type = "String"
              /\ d.Parameters[1].Name = "input"
              /\ ~d.Parameters[1].AllowNullValue
              /\ d.Return = "String"
    /\ called # "none" => called \in Functions

C19_Witness ==
    /\ called = "latinize"
    /\ resultSet
    /\ input = <<324, 769, 65>>
    /\ result = <<110, 65>>

\* The canonical decompositions of the letters that have one with a mark.
MarkedDecompositions ==
    {<<193, 65, 769>>, <<225, 97, 769>>, <<304, 73, 775>>, <<323, 78, 769>>,
     <<324, 110, 769>>, <<1049, 1048, 774>>, <<1081, 1080, 774>>}

\* c is a letter whose canonical decomposition has a combining mark.
LetterWithMark(c) ==
    /\ c \in Letters
    /\ \E d \in MarkedDecompositions : d[1] = c /\ d[3] \in NonSpacingMarks

\* C21: hasDiacritic(c) is true exactly for a letter whose canonical
\* decomposition has a combining mark; it is false for every non-letter, a
\* combining mark on its own included, and for every letter without accent.
C21_HasDiacritic ==
    (called = "elite" /\ resultSet) =>
        \A k \in 1..Len(input) :
            LET c == input[k]
            IN  /\ hasDiacritic(c) = LetterWithMark(c)
                /\ c \notin Letters => ~hasDiacritic(c)
                /\ c \in NonSpacingMarks => ~hasDiacritic(c)
                /\ (c \in Letters /\ ~HasDecomposableAccent(c))
                      => ~hasDiacritic(c)
                /\ (hasDiacritic(c) /\ c \in UppercaseLetters)
                      => result[k] \in LowercaseLetters

C21_Witness ==
    /\ called = "elite"
    /\ resultSet
    /\ input = <<769, 193, 110>>
    /\ hasDiacritic(193)
    /\ ~hasDiacritic(769)
    /\ ~hasDiacritic(110)
    /\ result = <<769, 225, 78>>

\* C24: for texts A and B, A empty or ending with a non-letter, sponge of A
\* followed by B is sponge of A followed by sponge of B.
C24_SpongeSplitsAtNonLetter ==
    (called = "sponge" /\ resultSet) =>
        \A cut \in 0..Len(input) :
            (cut = 0 \/ input[cut] \notin Letters) =>
                result = SpongeRender(SubSeq(input, 1, cut))
                            \o SpongeRender(SubSeq(input, cut + 1, Len(input)))

C24_Witness ==
    /\ called = "sponge"
    /\ resultSet
    /\ input = <<65, 45, 65>>
    /\ result = <<97, 45, 97>>

\* The second call is the function called first, called with its result.
Repeated(style) ==
    /\ called = style
    /\ resultSet
    /\ called2 = style
    /\ resultSet2
    /\ input2 = result

\* C22: flat, kebab, snake, upper, train and ada are idempotent: the style
\* applied to its own output returns that output.
C22_StylesIdempotent ==
    \A style \in {"flat", "kebab", "snake", "upper", "train", "ada"} :
        Repeated(style) => result2 = result

C22_Witness ==
    /\ Repeated("ada")
    /\ input = <<324, 45, 50>>
    /\ result = <<78, 95, 50>>
    /\ result2 = result

\* The first call is the function called a and the second the function
\* called b, both with the same argument.
SameArgument(a, b) ==
    /\ called = a
    /\ resultSet
    /\ called2 = b
    /\ resultSet2
    /\ input2 = input

\* t without the code point c.
Without(t, c) == LET Keep(x) == x # c IN SelectSeq(t, Keep)

\* t with its first n code points lowercased.
LowerFirst(t, n) ==
    [k \in 1..Len(t) |-> IF k <= n THEN AsciiLower(t[k]) ELSE t[k]]

\* C23: the styles render one token sequence: upper is snake uppercased,
\* train is kebab uppercased, flat is kebab without "-", pascal is ada
\* without "_", and camel is pascal with its first token all lowercase.
C23_StylesOfOneTokenSequence ==
    /\ SameArgument("upper", "snake") => result = UpperToken(result2)
    /\ SameArgument("train", "kebab") => result = UpperToken(result2)
    /\ SameArgument("flat", "kebab") => result = Without(result2, 45)
    /\ SameArgument("pascal", "ada") => result = Without(result2, 95)
    /\ SameArgument("camel", "pascal") =>
          LET tokens == Tokens
              first == IF tokens = <<>> THEN 0 ELSE Len(tokens[1])
          IN  /\ Len(result) = Len(result2)
              /\ result = LowerFirst(result2, first)
              /\ \A k \in 1..first : ~(result[k] \in 65..90)

C23_Witness ==
    /\ SameArgument("camel", "pascal")
    /\ input = <<65, 45, 110>>
    /\ result = <<97, 78>>
    /\ result2 = <<65, 78>>

\* The uppercase and the lowercase letter of c by CasePairs.
UpperOf(c) ==
    IF \E p \in CasePairs : p[2] = c
    THEN (CHOOSE p \in CasePairs : p[2] = c)[1]
    ELSE c

LowerOf(c) ==
    IF \E p \in CasePairs : p[1] = c
    THEN (CHOOSE p \in CasePairs : p[1] = c)[2]
    ELSE c

\* The letters a, e, i, o, u in either case.
PlainVowels == {65, 69, 73, 79, 85, 97, 101, 105, 111, 117}

\* C25: latinize(T) has no non-spacing combining mark and no letter for
\* which hasDiacritic holds; elite called with latinize(T) lowercases the
\* letters a, e, i, o, u, uppercases every other letter and copies the rest.
C25_EliteOfLatinized ==
    (called = "latinize" /\ resultSet) =>
        /\ \A k \in 1..Len(result) :
              /\ result[k] \notin NonSpacingMarks
              /\ ~LetterWithMark(result[k])
              /\ ~hasDiacritic(result[k])
        /\ (called2 = "elite" /\ resultSet2 /\ input2 = result) =>
              /\ Len(result2) = Len(result)
              /\ \A k \in 1..Len(result) :
                    result2[k] =
                        IF result[k] \notin Letters THEN result[k]
                        ELSE IF result[k] \in PlainVowels
                             THEN LowerOf(result[k])
                             ELSE UpperOf(result[k])

C25_Witness ==
    /\ called = "latinize"
    /\ resultSet
    /\ called2 = "elite"
    /\ resultSet2
    /\ input = <<324, 769, 65>>
    /\ input2 = result
    /\ result = <<110, 65>>
    /\ result2 = <<78, 97>>

====
